---- MODULE Spec2Model ----
(***************************************************************************)
(* Model of index.js: a script that logs the base URL, then launches three *)
(* async functions (getRandomFact, getMultipleFacts, getCatBreeds) without *)
(* awaiting them.  Each one awaits fetch(), awaits response.json(), prints *)
(* its result to the console, and reports any exception in its catch       *)
(* block.  The promise-chain versions of the same functions, given in      *)
(* README.md, are modelled next to them.                                   *)
(***************************************************************************)
EXTENDS Integers, Sequences, FiniteSets, TLC

VARIABLES
    upstream,   \* what the upstream service will answer to each call
    main,       \* position of the top-level script (0 = before line 6)
    pc,         \* position of each call
    response,   \* the local `response` of each call
    console,    \* every console.log / console.error so far, in order
    promise,    \* state of the promise each call returns
    requests,   \* number of HTTP GET requests each call has issued
    jsonCalls   \* number of response.json() invocations of each call

vars == <<upstream, main, pc, response, console, promise, requests, jsonCalls>>

----------------------------------------------------------------------------
(* Bounds and program constants *)

MaxLen == 2

NumberOfFacts == 3

Calls == {"getRandomFact", "getMultipleFacts", "getCatBreeds"}

LaunchOrder == <<"getRandomFact", "getMultipleFacts", "getCatBreeds">>

ScriptEnd == Len(LaunchOrder) + 1

Statuses == {200, 404, 500}

----------------------------------------------------------------------------
(* JSON values.  A missing property reads as the string "undefined", which *)
(* is also what console.log and a template literal print for it.           *)

Undefined == "undefined"

NoData == [tag |-> "undefined", items |-> <<>>]

NotArray == [tag |-> "string", items |-> <<>>]

ArrayOf(items) == [tag |-> "array", items |-> items]

JNullElem == [tag |-> "null", fact |-> Undefined, breed |-> Undefined]

ObjElem(f, b) == [tag |-> "object", fact |-> f, breed |-> b]

Elems == {JNullElem, ObjElem(Undefined, Undefined),
          ObjElem("fact one", "Abyssinian"), ObjElem("fact two", "Aegean")}

SeqsUpTo(S, n) == UNION {[1..k -> S] : k \in 0..n}

InvalidBody == [tag |-> "invalid", fact |-> Undefined, data |-> NoData]

JNullBody == [tag |-> "null", fact |-> Undefined, data |-> NoData]

Obj(f, d) == [tag |-> "object", fact |-> f, data |-> d]

Bodies ==
    {InvalidBody, JNullBody, Obj(Undefined, NoData), Obj("a fact", NoData),
     Obj(Undefined, NotArray)}
    \cup {Obj(Undefined, ArrayOf(s)) : s \in SeqsUpTo(Elems, MaxLen)}

(* A response of the upstream: the transport failed, or a status and body. *)
TransportFailure == [net |-> "failed", status |-> 0, body |-> InvalidBody]

Resp(s, b) == [net |-> "ok", status |-> s, body |-> b]

Responses == {TransportFailure} \cup {Resp(s, b) : s \in Statuses, b \in Bodies}

NoResponse == [net |-> "none", status |-> 0, body |-> InvalidBody]

GoodBody(c) ==
    IF c = "getRandomFact" THEN Obj("a fact", NoData)
    ELSE Obj(Undefined, ArrayOf(<<ObjElem("fact one", "Abyssinian"),
                                  ObjElem("fact two", "Aegean")>>))

(* The answers seen in ordinary operation of the service. *)
Typical(c) ==
    {TransportFailure, Resp(200, GoodBody(c)), Resp(404, Obj(Undefined, NoData)),
     Resp(500, InvalidBody)}

IsSuccessStatus(s) == s >= 200 /\ s <= 299

----------------------------------------------------------------------------
(* Console entries *)

Log(c, text) == [by |-> c, stream |-> "log", text |-> text]

ErrorPrefix(c) ==
    IF c = "getRandomFact" THEN "Error fetching random cat fact:"
    ELSE IF c = "getMultipleFacts" THEN "Error fetching multiple cat facts:"
    ELSE "Error fetching cat breeds:"

(* The catch block: console.error(<prefix>, error). *)
CatchBlock(c, err) == [by |-> c, stream |-> "error", text |-> <<ErrorPrefix(c), err>>]

Header(c) ==
    IF c = "getRandomFact" THEN Log(c, <<"Random Cat Fact:">>)
    ELSE IF c = "getMultipleFacts"
         THEN Log(c, <<"\n", ToString(NumberOfFacts), " Random Cat Facts:">>)
    ELSE Log(c, <<"\nList of Cat Breeds:">>)

(* The property a list call prints of an element. *)
FieldOf(c, e) == IF c = "getMultipleFacts" THEN e.fact ELSE e.breed

LineZeroBased(c, index, e) == Log(c, <<ToString(index), ". ", FieldOf(c, e)>>)

(* `${index + 1}. ${x}` for the element at 0-based position index. *)
Line(c, index, e) == Log(c, <<ToString(index + 1), ". ", FieldOf(c, e)>>)

(* data.data.forEach(...) from 0-based position index on: the lines printed *)
(* and whether reading a property of a null element threw.                 *)
RECURSIVE ForEach(_, _, _)
ForEach(c, items, index) ==
    IF index >= Len(items) THEN [out |-> <<>>, err |-> "none"]
    ELSE IF items[index + 1].tag = "null" THEN [out |-> <<>>, err |-> "TypeError"]
    ELSE LET rest == ForEach(c, items, index + 1)
         IN  [out |-> <<Line(c, index, items[index + 1])>> \o rest.out,
              err |-> rest.err]

(* The statements after `const data = await response.json()`, inside try. *)
HandleData(c, data) ==
    IF c = "getRandomFact"
    THEN IF data.tag = "null"
         THEN [out |-> <<Header(c)>>, err |-> "TypeError"]
         ELSE [out |-> <<Header(c), Log(c, <<data.fact>>)>>, err |-> "none"]
    ELSE IF data.tag = "null" \/ data.data.tag # "array"
         THEN [out |-> <<Header(c)>>, err |-> "TypeError"]
         ELSE LET r == ForEach(c, data.data.items, 0)
              IN  [out |-> <<Header(c)>> \o r.out, err |-> r.err]

----------------------------------------------------------------------------
(* try / catch *)

CaughtExceptData(stage) == stage \in {"fetch", "json"}

CaughtExceptJson(stage) == stage \in {"fetch", "data"}

CaughtExceptFetch(stage) == stage \in {"json", "data"}

(* The stages of a call that lie inside its try block. *)
Caught(stage) == stage \in {"fetch", "json", "data"}

(* The body of the try block run against response r: the output it makes,  *)
(* and the stage and error of the exception that ended it, if any.         *)
TryBody(c, r) ==
    IF r.net = "failed"
    THEN [out |-> <<>>, stage |-> "fetch", err |-> "TypeError: fetch failed"]
    ELSE IF r.body.tag = "invalid"
    THEN [out |-> <<>>, stage |-> "json", err |-> "SyntaxError"]
    ELSE LET h == HandleData(c, r.body)
         IN  [out |-> h.out, stage |-> "data", err |-> h.err]

(* A whole call against response r: console output and whether the promise *)
(* the async function returned ends rejected.                              *)
AsyncRun(c, r) ==
    LET t == TryBody(c, r)
    IN  IF t.err = "none" THEN [out |-> t.out, rejected |-> FALSE]
        ELSE IF Caught(t.stage)
        THEN [out |-> t.out \o <<CatchBlock(c, t.err)>>, rejected |-> FALSE]
        ELSE [out |-> t.out, rejected |-> TRUE]

----------------------------------------------------------------------------
(* State machine of index.js *)

Init ==
    /\ \E focus \in Calls, r \in Responses :
         \E t \in [Calls -> UNION {Typical(c) : c \in Calls}] :
            /\ \A c \in Calls : t[c] \in Typical(c)
            /\ upstream = [t EXCEPT ![focus] = r]
    /\ main = 0
    /\ pc = [c \in Calls |-> "init"]
    /\ response = [c \in Calls |-> NoResponse]
    /\ console = <<>>
    /\ promise = [c \in Calls |-> "none"]
    /\ requests = [c \in Calls |-> 0]
    /\ jsonCalls = [c \in Calls |-> 0]

(* Line 6: console.log("Base URL set up for CatFacts API:", baseUrl). *)
MainLog ==
    /\ main = 0
    /\ main' = 1
    /\ console' = Append(console,
                         Log("main", <<"Base URL set up for CatFacts API:",
                                       "https://catfact.ninja">>))
    /\ UNCHANGED <<upstream, pc, response, promise, requests, jsonCalls>>

(* fetch(url): one HTTP GET request leaves. *)
IssueFetch(reqs, c) == [reqs EXCEPT ![c] = @ + 1]

(* The script calls c(): the function runs up to its first await. *)
Launch(c) ==
    /\ main \in 1..Len(LaunchOrder)
    /\ LaunchOrder[main] = c
    /\ pc[c] = "init"
    /\ main' = main + 1
    /\ requests' = IssueFetch(requests, c)
    /\ pc' = [pc EXCEPT ![c] = "awaitFetch"]
    /\ promise' = [promise EXCEPT ![c] = "pending"]
    /\ UNCHANGED <<upstream, response, console, jsonCalls>>

ThrowAndRetry(c, stage, out, err) ==
    /\ console' = console \o out
    /\ promise' = promise
    /\ pc' = [pc EXCEPT ![c] = "awaitFetch"]
    /\ requests' = IssueFetch(requests, c)

(* An exception at `stage` with the output `out` already made: the catch   *)
(* block reports it and the function ends, issuing no further request; or  *)
(* it escapes, the returned promise is rejected with no handler and Node   *)
(* ends the process, taking the other calls with it.                       *)
Throw(c, stage, out, err) ==
    /\ requests' = requests
    /\ IF Caught(stage)
       THEN /\ console' = console \o out \o <<CatchBlock(c, err)>>
            /\ promise' = [promise EXCEPT ![c] = "fulfilled"]
            /\ pc' = [pc EXCEPT ![c] = "done"]
       ELSE /\ console' = console \o out
            /\ promise' = [promise EXCEPT ![c] = "rejected"]
            /\ pc' = [d \in Calls |-> IF d = c THEN "done"
                                      ELSE IF pc[d] = "done" THEN "done"
                                      ELSE "aborted"]

(* The try block ran to its end. *)
Return(c, out) ==
    /\ requests' = requests
    /\ console' = console \o out
    /\ promise' = [promise EXCEPT ![c] = "fulfilled"]
    /\ pc' = [pc EXCEPT ![c] = "done"]

(* The fetch promise rejects: no response was received. *)
FetchRejects(c) ==
    /\ main = ScriptEnd
    /\ pc[c] = "awaitFetch"
    /\ upstream[c].net = "failed"
    /\ Throw(c, "fetch", <<>>, "TypeError: fetch failed")
    /\ UNCHANGED <<upstream, main, response, jsonCalls>>

AfterFetchPrintsHeader(c) == <<Header(c)>>

(* What the function prints between resuming from `await fetch(...)` and   *)
(* suspending at `await response.json()`: nothing, every console call      *)
(* comes after the second await.                                           *)
AfterFetch(c) == <<>>

StoreShared(resp, c, r) == [d \in Calls |-> r]

(* const response = ...: the response is a local of call c. *)
StoreResponse(resp, c, r) == [resp EXCEPT ![c] = r]

(* The fetch promise resolves with a response of any status; the function  *)
(* resumes and calls response.json().                                      *)
FetchResolves(c) ==
    /\ main = ScriptEnd
    /\ pc[c] = "awaitFetch"
    /\ upstream[c].net = "ok"
    /\ response' = StoreResponse(response, c, upstream[c])
    /\ console' = console \o AfterFetch(c)
    /\ jsonCalls' = [jsonCalls EXCEPT ![c] = @ + 1]
    /\ pc' = [pc EXCEPT ![c] = "awaitJson"]
    /\ UNCHANGED <<upstream, main, promise, requests>>

(* response.json() rejects: the body is not valid JSON. *)
JsonRejects(c) ==
    /\ main = ScriptEnd
    /\ pc[c] = "awaitJson"
    /\ response[c].body.tag = "invalid"
    /\ Throw(c, "json", <<>>, "SyntaxError")
    /\ UNCHANGED <<upstream, main, response, jsonCalls>>

(* response.json() resolves: the function resumes with data and runs to    *)
(* its end without another suspension.                                     *)
JsonResolves(c) ==
    /\ main = ScriptEnd
    /\ pc[c] = "awaitJson"
    /\ response[c].body.tag # "invalid"
    /\ LET h == HandleData(c, response[c].body)
       IN  IF h.err = "none" THEN Return(c, h.out)
           ELSE Throw(c, "data", h.out, h.err)
    /\ UNCHANGED <<upstream, main, response, jsonCalls>>

Next ==
    \/ MainLog
    \/ \E c \in Calls : Launch(c)
    \/ \E c \in Calls : FetchRejects(c)
    \/ \E c \in Calls : FetchResolves(c)
    \/ \E c \in Calls : JsonRejects(c)
    \/ \E c \in Calls : JsonResolves(c)

Spec == Init /\ [][Next]_vars

----------------------------------------------------------------------------
(* The promise-chain versions (README.md): fetch(url).then(response =>     *)
(* response.json()).then(data => {...}).catch(error => {...}).  Here       *)
(* promise[c] is the promise the final .catch() returns.                   *)

ChainCaughtTwoArgThen(stage) == stage \in {"fetch", "json"}

(* The stages whose rejection reaches the .catch() closing the chain: the  *)
(* fetch promise and both .then() handlers precede it.                     *)
ChainCaught(stage) == stage \in {"fetch", "json", "data"}

(* .catch(error => console.error(<prefix>, error)). *)
ChainCatchHandler(c, err) ==
    [by |-> c, stream |-> "error", text |-> <<ErrorPrefix(c), err>>]

(* The second handler, .then(data => {...}): header, then the fact or the  *)
(* numbered list; a TypeError rejects the promise this .then() returned.   *)
ChainThenData(c, data) ==
    IF data.tag = "null" THEN [out |-> <<Header(c)>>, err |-> "TypeError"]
    ELSE IF c = "getRandomFact"
    THEN [out |-> <<Header(c), Log(c, <<data.fact>>)>>, err |-> "none"]
    ELSE IF data.data.tag # "array" THEN [out |-> <<Header(c)>>, err |-> "TypeError"]
    ELSE LET r == ForEach(c, data.data.items, 0)
         IN  [out |-> <<Header(c)>> \o r.out, err |-> r.err]

(* The script calls c(): fetch is issued, the handlers are attached and    *)
(* the function returns.                                                   *)
ChainLaunch(c) ==
    /\ main \in 1..Len(LaunchOrder)
    /\ LaunchOrder[main] = c
    /\ pc[c] = "init"
    /\ main' = main + 1
    /\ requests' = IssueFetch(requests, c)
    /\ pc' = [pc EXCEPT ![c] = "awaitFetch"]
    /\ promise' = [promise EXCEPT ![c] = "pending"]
    /\ UNCHANGED <<upstream, response, console, jsonCalls>>

(* A promise of the chain is rejected at `stage`: the rejection passes the *)
(* remaining .then() handlers and is handled by .catch(), or it is handled *)
(* nowhere and Node ends the process.                                      *)
ChainReject(c, stage, out, err) ==
    IF ChainCaught(stage)
    THEN /\ console' = console \o out \o <<ChainCatchHandler(c, err)>>
         /\ promise' = [promise EXCEPT ![c] = "fulfilled"]
         /\ pc' = [pc EXCEPT ![c] = "done"]
    ELSE /\ console' = console \o out
         /\ promise' = [promise EXCEPT ![c] = "rejected"]
         /\ pc' = [d \in Calls |-> IF d = c THEN "done"
                                   ELSE IF pc[d] = "done" THEN "done"
                                   ELSE "aborted"]

ChainFetchRejects(c) ==
    /\ main = ScriptEnd
    /\ pc[c] = "awaitFetch"
    /\ upstream[c].net = "failed"
    /\ ChainReject(c, "fetch", <<>>, "TypeError: fetch failed")
    /\ UNCHANGED <<upstream, main, response, requests, jsonCalls>>

(* The first handler, .then(response => response.json()). *)
ChainFetchResolves(c) ==
    /\ main = ScriptEnd
    /\ pc[c] = "awaitFetch"
    /\ upstream[c].net = "ok"
    /\ response' = [response EXCEPT ![c] = upstream[c]]
    /\ jsonCalls' = [jsonCalls EXCEPT ![c] = @ + 1]
    /\ pc' = [pc EXCEPT ![c] = "awaitJson"]
    /\ UNCHANGED <<upstream, main, console, promise, requests>>

ChainJsonRejects(c) ==
    /\ main = ScriptEnd
    /\ pc[c] = "awaitJson"
    /\ response[c].body.tag = "invalid"
    /\ ChainReject(c, "json", <<>>, "SyntaxError")
    /\ UNCHANGED <<upstream, main, response, requests, jsonCalls>>

ChainJsonResolves(c) ==
    /\ main = ScriptEnd
    /\ pc[c] = "awaitJson"
    /\ response[c].body.tag # "invalid"
    /\ LET h == ChainThenData(c, response[c].body)
       IN  IF h.err = "none"
           THEN /\ console' = console \o h.out
                /\ promise' = [promise EXCEPT ![c] = "fulfilled"]
                /\ pc' = [pc EXCEPT ![c] = "done"]
           ELSE ChainReject(c, "data", h.out, h.err)
    /\ UNCHANGED <<upstream, main, response, requests, jsonCalls>>

NextChain ==
    \/ MainLog
    \/ \E c \in Calls : ChainLaunch(c)
    \/ \E c \in Calls : ChainFetchRejects(c)
    \/ \E c \in Calls : ChainFetchResolves(c)
    \/ \E c \in Calls : ChainJsonRejects(c)
    \/ \E c \in Calls : ChainJsonResolves(c)

SpecChain == Init /\ [][NextChain]_vars

----------------------------------------------------------------------------
(* Observations used by the properties *)

Done(c) == pc[c] = "done"

IsBy(c, e) == e.by = c

OwnOutput(c) == SelectSeq(console, LAMBDA e : IsBy(c, e))

IsError(e) == e.stream = "error"

IsLog(e) == e.stream = "log"

ErrorReports(c) == SelectSeq(OwnOutput(c), IsError)

SuccessOutput(c) == SelectSeq(OwnOutput(c), IsLog)

ListCalls == {"getMultipleFacts", "getCatBreeds"}

IsOwnErrorReport(c, e) == e.by = c /\ e.stream = "error" /\ e.text[1] = ErrorPrefix(c)

(* Response r makes call c raise an exception somewhere: no response, a    *)
(* body that is not JSON, JSON null, or (list calls) no data array or a    *)
(* null element in it.                                                     *)
Raises(c, r) ==
    \/ r.net = "failed"
    \/ r.body.tag \in {"invalid", "null"}
    \/ /\ c \in ListCalls
       /\ \/ r.body.data.tag # "array"
          \/ \E i \in 1..Len(r.body.data.items) : r.body.data.items[i].tag = "null"

(* Valid JSON that lacks the field call c reads. *)
ShapeMissing(c, b) ==
    /\ b.tag \in {"null", "object"}
    /\ IF c \in ListCalls THEN b.tag = "null" \/ b.data.tag # "array"
       ELSE b.tag = "null" \/ b.fact = Undefined

(* Any step of call c after its launch. *)
StepOf(c) == FetchRejects(c) \/ FetchResolves(c) \/ JsonRejects(c) \/ JsonResolves(c)

----------------------------------------------------------------------------
(* Properties *)

(* C1: whatever the fetch and the decoding give, no call's promise is ever *)
(* rejected, no call is cut short, a finished call's promise is fulfilled, *)
(* and a call whose response made it raise ends with exactly one error     *)
(* report of its own, as its last console entry.                           *)
C1_NeverRejects ==
    \A c \in Calls :
        /\ promise[c] # "rejected"
        /\ pc[c] # "aborted"
        /\ Done(c) => promise[c] = "fulfilled"
        /\ Done(c) /\ Raises(c, upstream[c]) =>
              /\ Len(ErrorReports(c)) = 1
              /\ IsOwnErrorReport(c, OwnOutput(c)[Len(OwnOutput(c))])

(* C1 witness: a call that received JSON null (unexpected shape) finished  *)
(* with its promise fulfilled and its own error report.                    *)
C1_Witness ==
    \E c \in Calls :
        /\ Done(c)
        /\ upstream[c].net = "ok"
        /\ upstream[c].body.tag = "null"
        /\ promise[c] = "fulfilled"
        /\ Len(ErrorReports(c)) = 1

(* C2 (as claimed): once a response with a status outside 200..299 has     *)
(* been received, response.json() has not been invoked for it, and the     *)
(* finished call reported exactly an HTTP-status failure carrying the code.*)
C2_StatusCheckedBeforeDecode ==
    \A c \in Calls :
        response[c].net = "ok" /\ ~IsSuccessStatus(response[c].status) =>
            /\ jsonCalls[c] = 0
            /\ Done(c) =>
                  OwnOutput(c) = <<CatchBlock(c, <<"HttpStatusError",
                                                   response[c].status>>)>>

(* C3: a call whose fetch failed, or whose body was not valid JSON, ends   *)
(* with exactly one console entry, its own error report, and no log line;  *)
(* after a transport failure response.json() is never invoked.             *)
C3_FailureReportedOnce ==
    \A c \in Calls :
        /\ upstream[c].net = "failed" => jsonCalls[c] = 0
        /\ Done(c) /\ (upstream[c].net = "failed" \/ upstream[c].body.tag = "invalid") =>
              /\ Len(OwnOutput(c)) = 1
              /\ IsOwnErrorReport(c, OwnOutput(c)[1])
              /\ SuccessOutput(c) = <<>>

(* C3 witness: one call finished after a transport failure and another     *)
(* after a body that is not JSON, each with one error report.              *)
C3_Witness ==
    \E c, d \in Calls :
        /\ Done(c) /\ upstream[c].net = "failed"
        /\ Done(d) /\ upstream[d].net = "ok" /\ upstream[d].body.tag = "invalid"
        /\ jsonCalls[c] = 0 /\ jsonCalls[d] = 1
        /\ Len(ErrorReports(c)) = 1 /\ Len(ErrorReports(d)) = 1

(* C4 (as claimed): a finished call whose 2xx response decoded to JSON     *)
(* lacking the expected field reported a failure and no success output.    *)
C4_ShapeMismatchIsFailure ==
    \A c \in Calls :
        (/\ Done(c)
         /\ upstream[c].net = "ok"
         /\ IsSuccessStatus(upstream[c].status)
         /\ ShapeMissing(c, upstream[c].body)) =>
            /\ Len(ErrorReports(c)) = 1
            /\ SuccessOutput(c) = <<>>

(* C5 (as claimed): a finished call made either success output or one      *)
(* failure report, never both and never neither.                           *)
C5_ExactlyOneOutcome ==
    \A c \in Calls :
        Done(c) =>
            /\ Len(ErrorReports(c)) <= 1
            /\ (SuccessOutput(c) # <<>>) # (ErrorReports(c) # <<>>)

(* C6: the calls do not interfere.  Under every interleaving a finished    *)
(* call's console output is the output of running it alone against its own *)
(* response, and a call that has not finished can always take its next     *)
(* step, whatever happened to the other two.                               *)
C6_NoInterference ==
    \A c \in Calls :
        /\ Done(c) => OwnOutput(c) = AsyncRun(c, upstream[c]).out
        /\ main = ScriptEnd /\ ~Done(c) => ENABLED StepOf(c)

(* C6 witness: all three finished, one after a transport failure, one      *)
(* after a bad status, one after a body that is not JSON.                  *)
C6_Witness ==
    /\ \A c \in Calls : Done(c)
    /\ upstream["getRandomFact"] = TransportFailure
    /\ upstream["getMultipleFacts"] = Resp(404, Obj(Undefined, NoData))
    /\ upstream["getCatBreeds"] = Resp(500, InvalidBody)

(* The list a list call prints for items: entry i is "i. <field of e_i>".  *)
NumberedLines(c, items) ==
    [i \in 1..Len(items) |-> Log(c, <<ToString(i), ". ", FieldOf(c, items[i])>>)]

C9_ChainEquivalent ==
    \A c \in Calls :
        /\ promise[c] # "rejected"
        /\ pc[c] # "aborted"
        /\ ~AsyncRun(c, upstream[c]).rejected
        /\ Done(c) => OwnOutput(c) = AsyncRun(c, upstream[c]).out

(* C9 witness: a chain-version list call finished on a body with no data   *)
(* array, having printed its header and then its error report, as the      *)
(* async/await version does.                                               *)
C9_Witness ==
    \E c \in ListCalls :
        /\ Done(c)
        /\ upstream[c].net = "ok"
        /\ upstream[c].body = Obj(Undefined, NotArray)
        /\ OwnOutput(c) = <<Header(c), CatchBlock(c, "TypeError")>>
        /\ AsyncRun(c, upstream[c]).out = OwnOutput(c)

(* C10: a launched call has issued exactly one HTTP GET request, at every  *)
(* point of every execution, whatever failed.                              *)
C10_NoRetry ==
    \A c \in Calls : requests[c] = IF pc[c] = "init" THEN 0 ELSE 1

(* C10 witness: every call finished with a failure report and still one    *)
(* request each.                                                           *)
C10_Witness ==
    \A c \in Calls : Done(c) /\ Len(ErrorReports(c)) = 1 /\ requests[c] = 1

(* C11: the output of one call is atomic with respect to the others: at    *)
(* every point of every execution the console entries of a call are        *)
(* consecutive, no entry of another call or of the script lies between the *)
(* header of a call and the lines or the error report that follow it.      *)
C11_OutputAtomic ==
    \A i, j \in 1..Len(console) :
        (i < j /\ console[i].by \in Calls /\ console[j].by = console[i].by) =>
            \A k \in i..j : console[k].by = console[i].by

(* C11 witness: all three calls finished, the two list calls with a header *)
(* followed by further entries (two lines, and an error report), printed   *)
(* in the reverse of their launch order, after getRandomFact's two lines.  *)
C11_Witness ==
    /\ \A c \in Calls : Done(c)
    /\ Len(OwnOutput("getRandomFact")) = 2
    /\ Len(OwnOutput("getMultipleFacts")) = 3
    /\ Len(ErrorReports("getCatBreeds")) = 1
    /\ Len(OwnOutput("getCatBreeds")) = 2
    /\ console[2].by = "getRandomFact"
    /\ console[4].by = "getCatBreeds"
    /\ console[Len(console)].by = "getMultipleFacts"

====
